---- MODULE Spec2Model ----
(***************************************************************************)
(* Model of pkg/commands/resolver.go of ko: the ordered resolution         *)
(* pipeline resolveFilesToWriter, its worker tasks, the watch callback of  *)
(* the dependency graph, and the memoizing build/publish caches it is      *)
(* given by makeBuilder and makePublisher.                                 *)
(*                                                                         *)
(* Channels of the program are unbuffered, so a send and its receive are   *)
(* one step (a rendezvous) taken by the receiver's action.                 *)
(***************************************************************************)
EXTENDS Naturals, Sequences, FiniteSets, TLC

\* ------------------------------------------------------------------ bounds
\* Number of file identifiers the coordinator consumes in one run.
MaxFiles == 2
\* Number of change notifications the notifier delivers in one run.
MaxNotify == 1
\* bo.ConcurrentBuilds, the size of the build limiter.
ConcurrentBuilds == 1

\* ------------------------------------------------------------------ inputs
Files == {"f1", "f2"}
Keys == {"A", "B"}

\* The build references of a file, in the order its resolution builds them.
Refs(f) == IF f = "f1" THEN <<"A", "B">> ELSE <<"B">>

\* The record separator written after every block: "\n---\n".
Separator == 0

\* The run has not returned yet.
NotReturned == [kind |-> "none", src |-> 0]
NoErr == [kind |-> "nil", src |-> 0]
TaskErr(t) == [kind |-> "task", src |-> t]
NotifierSrc == 100

VARIABLES
    watch,      \* fo.Watch
    cpc,        \* position of the coordinator: "init", "loop", "wait", "done"
    ret,        \* the value resolveFilesToWriter returned
    fsClosed,   \* the enumerator has closed the file channel
    fsNil,      \* the coordinator's fs variable is nil
    tasks,      \* the launched worker tasks, indexed by arrival position
    futures,    \* the coordinator's list of futures (positions)
    out,        \* what was written to the sink
    outClosed,  \* out.Close() has run
    gerr,       \* the errgroup's first error (0: none), a task position
    sm,         \* the file -> import paths map
    graph,      \* the dep-notify graph: its state and the keys added to it
    cb,         \* the watch callback in progress
    notifs,     \* number of change notifications so far
    nerr,       \* the notifier's error: "none", "delivered"
    entries,    \* every cache entry (future) ever created
    table,      \* the caches' tables: cache key -> entry
    invs        \* per build key, the number of Invalidate calls so far

vars == <<watch, cpc, ret, fsClosed, fsNil, tasks, futures, out, outClosed,
          gerr, sm, graph, cb, notifs, nerr, entries, table, invs>>

coordVars == <<cpc, ret, fsClosed, fsNil, futures, out, outClosed>>
cacheVars == <<entries, table, invs>>
watchVars == <<graph, cb, notifs, nerr>>

Range(s) == {s[i] : i \in 1..Len(s)}
Positions == 1..Len(tasks)

\* --------------------------------------------------- the memoizing caches
\* Cache keys: a build is keyed by its import path, a publish by the
\* reference together with the artifact (the build entry) it publishes.
BuildKey(k) == <<"build", k>>
PublishKey(k, art) == <<"publish", k, art>>

\* The callback's position in its loops, with history of the notification
\* it serves: the keys it invalidated (inv, and in order invseq), the file
\* names the coordinator took from it (sent) and the import paths it loaded
\* (seen).
IdleCb == [st |-> "idle", S |-> {}, todo |-> {}, f |-> "", val |-> <<>>, idx |-> 1,
           inv |-> {}, sent |-> <<>>, seen |-> <<>>, invseq |-> <<>>]

\* A new entry and its goroutine: a build first waits for a limiter slot, a
\* publish is invoked at once.
NewEntry(ck, gen) ==
    IF ck[1] = "build"
    THEN [key |-> ck, gen |-> gen, st |-> "queued", ok |-> FALSE, calls |-> 0]
    ELSE [key |-> ck, gen |-> gen, st |-> "running", ok |-> FALSE, calls |-> 1]

HasEntry(tb, ck) == ck \in DOMAIN tb

ExecuteAlwaysNew(es, tb, ck, gen) ==
    [es |-> Append(es, NewEntry(ck, gen)),
     tb |-> [x \in DOMAIN tb \cup {ck} |-> IF x = ck THEN Len(es) + 1 ELSE tb[x]],
     id |-> Len(es) + 1]

\* Execute(key, op) up to the point where the caller waits on the entry:
\* under the table's lock, return the entry of the key, creating it (and
\* with it the one goroutine that invokes op) when there is none.
Execute(es, tb, ck, gen) ==
    IF HasEntry(tb, ck)
    THEN [es |-> es, tb |-> tb, id |-> tb[ck]]
    ELSE [es |-> Append(es, NewEntry(ck, gen)),
          tb |-> [x \in DOMAIN tb \cup {ck} |-> IF x = ck THEN Len(es) + 1 ELSE tb[x]],
          id |-> Len(es) + 1]

InvalidateNoop(tb, ck) == tb

\* Invalidate(key): the key's entry is dropped from the table; the entry
\* itself is left as it is.
Invalidate(tb, ck) == [x \in DOMAIN tb \ {ck} |-> tb[x]]

Generation(ck) == IF ck[1] = "build" THEN invs[ck[2]] ELSE 0

Running == {e \in 1..Len(entries) : entries[e].st = "running" /\ entries[e].key[1] = "build"}

LimiterFreeAlways == TRUE

\* The limiter in front of the builder: a slot is free.
LimiterFree == Cardinality(Running) < ConcurrentBuilds

\* The build entry's goroutine takes a limiter slot and starts the
\* physical build.
StartOp(e) ==
    /\ entries[e].st = "queued"
    /\ LimiterFree
    /\ entries' = [entries EXCEPT ![e].st = "running", ![e].calls = @ + 1]
    /\ UNCHANGED <<watch, coordVars, tasks, gerr, sm, watchVars, table, invs>>

\* The physical operation returns; its outcome is stored in the entry.
FinishOp(e) ==
    /\ entries[e].st = "running"
    /\ \E ok \in BOOLEAN : entries' = [entries EXCEPT ![e].st = "done", ![e].ok = ok]
    /\ UNCHANGED <<watch, coordVars, tasks, gerr, sm, watchVars, table, invs>>

\* ---------------------------------------------------------- worker tasks
\* History kept with a task: origin is 0 for a file name sent by the
\* enumerator and n for one sent by the callback of the n-th notification;
\* prior marks a task that had finished before the modelled window began.
NewTask(f, origin) ==
    [file |-> f, pc |-> "run", idx |-> 1, hold |-> 0, got |-> <<>>,
     paths |-> <<>>, added |-> 0, res |-> "none", rv |-> "none",
     origin |-> origin, prior |-> FALSE]

\* The tasks launched in the modelled window.
Launched == {t \in Positions : ~tasks[t].prior}

TaskReturnAlwaysNil(w) == "nil"
TaskReturnAlwaysErr(w) == "err"

\* What the task function returns to the errgroup when resolveFile failed.
TaskReturn(w) == IF w THEN "nil" ELSE "err"

\* errgroup: the first non-nil error returned by a task is kept.
GroupErr(cur, t) == IF cur = 0 THEN t ELSE cur

\* The outcomes a task has received from the caches so far, with the one
\* it is receiving from the entry it holds.
Received(tk) == Append(tk.got, [e |-> tk.hold, ok |-> entries[tk.hold].ok])

\* The task function has returned and its deferred close(ch) has run: the
\* future is closed. The pc is "record" while the errgroup has yet to take
\* the error returned, and "done" when the goroutine is over.
FutureClosed(tk) == tk.pc \in {"record", "done"}

\* Where a task that returns r goes: a returned error is still to be
\* recorded by the errgroup.
AfterReturn(r) == IF r = "err" THEN "record" ELSE "done"

\* resolveFile returned an error: log or return it, and close the future.
Failed(t, tk) ==
    LET r == TaskReturn(watch) IN
    /\ tasks' = [tasks EXCEPT ![t] = [tk EXCEPT !.pc = AfterReturn(r), !.res = "err",
                                                !.rv = r, !.hold = 0]]
    /\ UNCHANGED gerr

\* errs.Go's wrapper, after the task function returned an error: the
\* group keeps it if it is the first, and the goroutine ends.
GroupRecord(t) ==
    /\ tasks[t].pc = "record"
    /\ tasks' = [tasks EXCEPT ![t].pc = "done"]
    /\ gerr' = GroupErr(gerr, t)
    /\ UNCHANGED <<watch, coordVars, sm, watchVars, cacheVars>>

\* resolveFile returned the bytes: record the import paths, then block on
\* the future.
StoreMerged(old, paths) == old \o paths

\* sm.Store(f, recordingBuilder.ImportPaths): the value replaces the old one.
StoreValue(old, paths) == paths

Resolved(t, tk) ==
    /\ tasks' = [tasks EXCEPT ![t] = [tk EXCEPT !.pc = "send", !.res = "ok", !.hold = 0]]
    /\ sm' = [sm EXCEPT ![tk.file] = StoreValue(@, tk.paths)]
    /\ UNCHANGED gerr

\* resolve.ImageReferences returned nil: resolveFile encodes the documents
\* and returns the bytes, or fails with "failed to encode output".
Encode(t, tk) ==
    \/ Resolved(t, tk)
    \/ Failed(t, tk) /\ UNCHANGED sm

\* The recorder's ordered set of import paths with k noted.
Record(paths, k) == IF k \in Range(paths) THEN paths ELSE Append(paths, k)

\* The recording builder notes the import path and asks the build cache.
RecordAndBuild(t, tk) ==
    LET k == Refs(tk.file)[tk.idx]
        x == Execute(entries, table, BuildKey(k), Generation(BuildKey(k))) IN
    /\ tasks' = [tasks EXCEPT ![t] = [tk EXCEPT !.pc = "build", !.hold = x.id,
                                                !.paths = Record(tk.paths, k)]]
    /\ entries' = x.es
    /\ table' = x.tb
    /\ UNCHANGED <<gerr, sm, invs>>

\* resolveFile fails before any build: unreadable or malformed file, or a
\* selector that does not evaluate.
ResolveFail(t) ==
    /\ tasks[t].pc = "run"
    /\ Failed(t, tasks[t])
    /\ UNCHANGED <<watch, coordVars, sm, watchVars, cacheVars>>

\* resolveFile starts on the file's references (or has none).
ResolveStart(t) ==
    /\ tasks[t].pc = "run"
    /\ IF Len(Refs(tasks[t].file)) = 0
       THEN Encode(t, tasks[t]) /\ UNCHANGED cacheVars
       ELSE RecordAndBuild(t, tasks[t])
    /\ UNCHANGED <<watch, coordVars, watchVars>>

\* The build entry the task waits on has resolved: on success publish the
\* artifact through the publish cache.
BuildReturn(t) ==
    LET tk == tasks[t]
        e == tk.hold IN
    /\ tk.pc = "build"
    /\ entries[e].st = "done"
    /\ IF entries[e].ok
       THEN LET ck == PublishKey(Refs(tk.file)[tk.idx], e)
                x == Execute(entries, table, ck, Generation(ck)) IN
            /\ tasks' = [tasks EXCEPT ![t].pc = "publish", ![t].hold = x.id,
                                      ![t].got = Received(tk)]
            /\ entries' = x.es
            /\ table' = x.tb
            /\ UNCHANGED <<gerr, invs>>
       ELSE Failed(t, [tk EXCEPT !.got = Received(tk)]) /\ UNCHANGED cacheVars
    /\ UNCHANGED <<watch, coordVars, sm, watchVars>>

\* The publish entry has resolved: go on with the next reference, or
\* return to resolveFile, which encodes the output.
PublishReturn(t) ==
    LET tk == tasks[t]
        e == tk.hold
        nx == [tk EXCEPT !.idx = @ + 1, !.got = Received(tk)] IN
    /\ tk.pc = "publish"
    /\ entries[e].st = "done"
    /\ IF ~entries[e].ok
       THEN Failed(t, [tk EXCEPT !.got = Received(tk)]) /\ UNCHANGED <<sm, cacheVars>>
       ELSE IF nx.idx > Len(Refs(tk.file))
            THEN Encode(t, nx) /\ UNCHANGED cacheVars
            ELSE RecordAndBuild(t, nx)
    /\ UNCHANGED <<watch, coordVars, watchVars>>

\* After the bytes were handed over: in one-shot mode the task returns;
\* in watch mode it makes one call of g.Add per step, for the next import
\* path, returns nil after the last one, and reports an Add that fails on
\* errCh.
AddPath(t) ==
    LET tk == tasks[t]
        n == tk.added + 1 IN
    /\ tk.pc = "add"
    /\ IF ~watch \/ Len(tk.paths) = 0
       THEN /\ tasks' = [tasks EXCEPT ![t].pc = "done", ![t].rv = "nil"]
            /\ UNCHANGED graph
       ELSE \/ /\ graph' = [graph EXCEPT !.keys = @ \cup {tk.paths[n]}]
               /\ tasks' = IF n = Len(tk.paths)
                           THEN [tasks EXCEPT ![t].added = n, ![t].pc = "done",
                                              ![t].rv = "nil"]
                           ELSE [tasks EXCEPT ![t].added = n]
            \/ /\ tasks' = [tasks EXCEPT ![t].pc = "errsend"]
               /\ UNCHANGED graph
    /\ UNCHANGED <<watch, coordVars, gerr, sm, cb, notifs, nerr, cacheVars>>

\* The task whose error the coordinator took from errCh returns it.
AddFailReturn(t) ==
    /\ tasks[t].pc = "errret"
    /\ tasks' = [tasks EXCEPT ![t].pc = AfterReturn("err"), ![t].rv = "err"]
    /\ UNCHANGED gerr
    /\ UNCHANGED <<watch, coordVars, sm, watchVars, cacheVars>>

\* ------------------------------------------------- graph and its callback
\* The watch callback's test on one recorded import path.
AffectedAny(S, ip) == TRUE
Affected(S, ip) == ip \in S

\* Index of the next import path of val, from idx on, that the change set
\* has; 0 when there is none.
NextMatch(val, S, idx) ==
    LET hits == {j \in idx..Len(val) : Affected(S, val[j])} IN
    IF hits = {} THEN 0 ELSE CHOOSE j \in hits : \A i \in hits : j <= i

\* dep-notify calls the callback with the set of affected import paths.
Notify(S) ==
    /\ cpc = "loop"
    /\ graph.st = "ok"
    /\ cb.st = "idle"
    /\ notifs < MaxNotify
    /\ notifs' = notifs + 1
    /\ cb' = [IdleCb EXCEPT !.st = "range", !.S = S,
                            !.todo = {f \in Files : sm[f] # <<>>},
                            !.seen = [f \in {} |-> <<>>]]
    /\ UNCHANGED <<watch, coordVars, tasks, gerr, sm, graph, nerr, cacheVars>>

\* sm.Range visits the next file and loads its recorded import paths.
CbVisit(f) ==
    /\ cb.st = "range"
    /\ f \in cb.todo
    /\ cb' = [cb EXCEPT !.st = "file", !.todo = @ \ {f}, !.f = f, !.val = sm[f], !.idx = 1,
                        !.seen = [x \in DOMAIN cb.seen \cup {f} |->
                                     IF x = f THEN sm[f] ELSE cb.seen[x]]]
    /\ UNCHANGED <<watch, coordVars, tasks, gerr, sm, graph, notifs, nerr, cacheVars>>

\* The loop over the file's import paths: the next affected one is
\* invalidated and the callback blocks sending the file name on fs.
CbScan ==
    LET j == NextMatch(cb.val, cb.S, cb.idx) IN
    /\ cb.st = "file"
    /\ IF j = 0
       THEN /\ cb' = [cb EXCEPT !.st = "range"]
            /\ UNCHANGED cacheVars
       ELSE /\ table' = Invalidate(table, BuildKey(cb.val[j]))
            /\ invs' = [invs EXCEPT ![cb.val[j]] = @ + 1]
            /\ cb' = [cb EXCEPT !.st = "send", !.idx = j + 1, !.inv = @ \cup {cb.val[j]},
                                !.invseq = Append(@, cb.val[j])]
            /\ UNCHANGED entries
    /\ UNCHANGED <<watch, coordVars, tasks, gerr, sm, graph, notifs, nerr>>

\* sm.Range has visited every file: the callback returns.
CbReturn ==
    /\ cb.st = "range"
    /\ cb.todo = {}
    /\ cb' = [cb EXCEPT !.st = "idle"]
    /\ UNCHANGED <<watch, coordVars, tasks, gerr, sm, graph, notifs, nerr, cacheVars>>

\* The notifier has an error to report: its goroutine sends it on errCh.
NotifierError ==
    /\ graph.st = "ok"
    /\ nerr = "none"

\* ------------------------------------------------------------ coordinator
ShutdownSkipped(g) == g

\* defer g.Shutdown(), registered once graph.New has succeeded.
Shutdown(g) == IF g.st = "ok" THEN [g EXCEPT !.st = "shutdown"] ELSE g

\* The deferred calls of resolveFilesToWriter.
Return(r) ==
    /\ cpc' = "done"
    /\ ret' = r
    /\ outClosed' = TRUE
    /\ graph' = Shutdown(graph)

AfterGraphNewIgnoreErr(failed) == "loop"

\* if err != nil { return ... } after graph.New: where the coordinator goes.
AfterGraphNew(failed) == IF failed THEN "done" ELSE "loop"

\* From the call to the top of the loop: in watch mode graph.New, which
\* may fail.
Start ==
    /\ cpc = "init"
    /\ \/ /\ ~watch
          /\ cpc' = "loop"
          /\ UNCHANGED <<ret, outClosed, graph>>
       \/ /\ watch
          /\ cpc' = AfterGraphNew(FALSE)
          /\ graph' = [graph EXCEPT !.st = "ok"]
          /\ UNCHANGED <<ret, outClosed>>
       \/ /\ watch
          /\ graph' = [graph EXCEPT !.st = "failed"]
          /\ cpc' = AfterGraphNew(TRUE)
          /\ ret' = [kind |-> "graphnew", src |-> 0]
          /\ outClosed' = TRUE
    /\ UNCHANGED <<watch, fsClosed, fsNil, tasks, futures, out, gerr, sm, cb, notifs,
                   nerr, cacheVars>>

EnqueueFront(fut, t) == <<t>> \o fut

\* futures = append(futures, ch)
Enqueue(fut, t) == Append(fut, t)

\* A file name arrives: append its future and launch its task.
Launch(f, origin) ==
    /\ tasks' = Append(tasks, NewTask(f, origin))
    /\ futures' = Enqueue(futures, Len(tasks) + 1)

AwaitFsAlways(nil) == TRUE

\* The select's case on fs can be taken only while fs is not nil.
AwaitFs(nil) == ~nil

\* The select's case on bf can be taken only while bf is not nil, that is
\* while there is a future.
AwaitHead(fut) == Len(fut) > 0

\* case file, ok := <-fs, sent by the enumerator.
RecvFile(f) ==
    /\ cpc = "loop"
    /\ AwaitFs(fsNil)
    /\ ~fsClosed
    /\ Cardinality(Launched) < MaxFiles
    /\ Launch(f, 0)
    /\ UNCHANGED <<watch, cpc, ret, fsClosed, fsNil, out, outClosed, gerr, sm, watchVars,
                   cacheVars>>

\* case file, ok := <-fs, sent by the watch callback.
RecvRequeue ==
    /\ cpc = "loop"
    /\ AwaitFs(fsNil)
    /\ cb.st = "send"
    /\ Cardinality(Launched) < MaxFiles
    /\ Launch(cb.f, notifs)
    /\ cb' = [cb EXCEPT !.st = "file", !.sent = Append(@, cb.f)]
    /\ UNCHANGED <<watch, cpc, ret, fsClosed, fsNil, out, outClosed, gerr, sm, graph,
                   notifs, nerr, cacheVars>>

\* The enumerator of a one-shot run closes the channel after its last file.
EnumClose ==
    /\ ~watch
    /\ cpc = "loop"
    /\ ~fsClosed
    /\ fsClosed' = TRUE
    /\ UNCHANGED <<watch, cpc, ret, fsNil, tasks, futures, out, outClosed, gerr, sm,
                   watchVars, cacheVars>>

\* case file, ok := <-fs with ok false: fs = nil.
RecvClosed ==
    /\ cpc = "loop"
    /\ AwaitFs(fsNil)
    /\ fsClosed
    /\ fsNil' = TRUE
    /\ UNCHANGED <<watch, cpc, ret, fsClosed, tasks, futures, out, outClosed, gerr, sm,
                   watchVars, cacheVars>>

BfLast(fut) == fut[Len(fut)]

\* bf, the future the coordinator listens to: the head of the list.
Bf(fut) == fut[1]

BlockNoDelimiter(t) == <<t>>

\* append(b, []byte("\n---\n")...): the bytes of task t and the delimiter.
Block(t) == <<t, Separator>>

\* case b, ok := <-bf: dequeue, and write the block when there is one.
RecvHead ==
    /\ cpc = "loop"
    /\ AwaitHead(futures)
    /\ LET t == Bf(futures) IN
       \/ /\ tasks[t].pc = "send"
          /\ tasks' = [tasks EXCEPT ![t].pc = "add"]
          /\ out' = out \o Block(t)
       \/ /\ FutureClosed(tasks[t])
          /\ UNCHANGED <<tasks, out>>
    /\ futures' = Tail(futures)
    /\ UNCHANGED <<watch, cpc, ret, fsClosed, fsNil, outClosed, gerr, sm, watchVars,
                   cacheVars>>

WatchErrNil(src) == NoErr

\* fmt.Errorf("watching dependencies: %v", err): the error wrapping err.
WatchErr(src) == [kind |-> "watch", src |-> src]

\* case err := <-errCh, sent by a task whose g.Add failed.
RecvErrTask(t) ==
    /\ cpc = "loop"
    /\ watch
    /\ tasks[t].pc = "errsend"
    /\ tasks' = [tasks EXCEPT ![t].pc = "errret"]
    /\ Return(WatchErr(t))
    /\ UNCHANGED <<watch, fsClosed, fsNil, futures, out, gerr, sm, cb, notifs, nerr,
                   cacheVars>>

\* case err := <-errCh, sent by the notifier.
RecvErrNotifier ==
    /\ cpc = "loop"
    /\ watch
    /\ NotifierError
    /\ nerr' = "delivered"
    /\ Return(WatchErr(NotifierSrc))
    /\ UNCHANGED <<watch, fsClosed, fsNil, tasks, futures, out, gerr, sm, cb, notifs,
                   cacheVars>>

LoopExitNoFutures(fut, nil) == Len(fut) = 0

\* The loop's break: no future is left and fs is nil.
LoopExit(fut, nil) == Len(fut) = 0 /\ nil

Break ==
    /\ cpc = "loop"
    /\ LoopExit(futures, fsNil)
    /\ cpc' = "wait"
    /\ UNCHANGED <<watch, ret, fsClosed, fsNil, tasks, futures, out, outClosed, gerr, sm,
                   watchVars, cacheVars>>

\* return errs.Wait(): every task has returned; the group's error.
Wait ==
    /\ cpc = "wait"
    /\ \A t \in Positions : tasks[t].pc = "done"
    /\ Return(IF gerr = 0 THEN NoErr ELSE TaskErr(gerr))
    /\ UNCHANGED <<watch, fsClosed, fsNil, tasks, futures, out, gerr, sm, cb, notifs, nerr,
                   cacheVars>>

\* ---------------------------------------------------------- specification
Init ==
    /\ watch \in BOOLEAN
    /\ cpc = "init"
    /\ ret = NotReturned
    /\ fsClosed = FALSE
    /\ fsNil = FALSE
    /\ tasks = <<>>
    /\ futures = <<>>
    /\ out = <<>>
    /\ outClosed = FALSE
    /\ gerr = 0
    /\ sm = [f \in Files |-> <<>>]
    /\ graph = [st |-> "none", keys |-> {}]
    /\ cb = IdleCb
    /\ notifs = 0
    /\ nerr = "none"
    /\ entries = <<>>
    /\ table = [x \in {} |-> 0]
    /\ invs = [k \in Keys |-> 0]

Next ==
    \/ Start
    \/ \E f \in Files : RecvFile(f)
    \/ RecvRequeue
    \/ EnumClose
    \/ RecvClosed
    \/ RecvHead
    \/ \E t \in Positions : RecvErrTask(t)
    \/ RecvErrNotifier
    \/ Break
    \/ Wait
    \/ \E t \in Positions : ResolveFail(t)
    \/ \E t \in Positions : ResolveStart(t)
    \/ \E t \in Positions : BuildReturn(t)
    \/ \E t \in Positions : PublishReturn(t)
    \/ \E t \in Positions : AddPath(t)
    \/ \E t \in Positions : AddFailReturn(t)
    \/ \E t \in Positions : GroupRecord(t)
    \/ \E e \in 1..Len(entries) : StartOp(e)
    \/ \E e \in 1..Len(entries) : FinishOp(e)
    \/ \E S \in SUBSET graph.keys \ {{}} : Notify(S)
    \/ \E f \in Files : CbVisit(f)
    \/ CbScan
    \/ CbReturn

Spec == Init /\ [][Next]_vars

\* --------------------------------------------------------- one-shot run
InitOneShot == Init /\ ~watch

\* The steps of a one-shot run: no graph, no callback, nothing sent on errCh.
NextOneShot ==
    \/ Start
    \/ \E f \in Files : RecvFile(f)
    \/ EnumClose
    \/ RecvClosed
    \/ RecvHead
    \/ Break
    \/ Wait
    \/ \E t \in Positions : ResolveFail(t)
    \/ \E t \in Positions : ResolveStart(t)
    \/ \E t \in Positions : BuildReturn(t)
    \/ \E t \in Positions : PublishReturn(t)
    \/ \E t \in Positions : AddPath(t)
    \/ \E t \in Positions : GroupRecord(t)
    \/ \E e \in 1..Len(entries) : StartOp(e)
    \/ \E e \in 1..Len(entries) : FinishOp(e)

\* A step of the goroutine of task t.
TaskStep(t) ==
    /\ t \in Positions
    /\ \/ ResolveFail(t)
       \/ ResolveStart(t)
       \/ BuildReturn(t)
       \/ PublishReturn(t)
       \/ AddPath(t)
       \/ GroupRecord(t)

\* The file stream closes after finitely many names, the coordinator and
\* every task goroutine keep running, and every build and publish call
\* starts when the limiter lets it and terminates.
FairOneShot ==
    /\ WF_vars(Start)
    /\ WF_vars(EnumClose)
    /\ WF_vars(RecvClosed)
    /\ WF_vars(RecvHead)
    /\ WF_vars(Break)
    /\ WF_vars(Wait)
    /\ \A t \in 1..MaxFiles : WF_vars(TaskStep(t))
    /\ WF_vars(\E e \in 1..Len(entries) : StartOp(e))
    /\ WF_vars(\E e \in 1..Len(entries) : FinishOp(e))

SpecOneShot == InitOneShot /\ [][NextOneShot]_vars /\ FairOneShot

\* ------------------------------------------------- a watch run under way
\* The state of a watch run once f1 and then f2 were resolved, written and
\* added to the graph, and nothing is in flight: a state Spec reaches. The
\* two finished tasks are marked prior when a specification starts there.
DoneEntry(ck) == [key |-> ck, gen |-> 0, st |-> "done", ok |-> TRUE, calls |-> 1]

SettledEntries ==
    <<DoneEntry(BuildKey("A")), DoneEntry(PublishKey("A", 1)),
      DoneEntry(BuildKey("B")), DoneEntry(PublishKey("B", 3))>>

SettledTask(f, got, p) ==
    [file |-> f, pc |-> "done", idx |-> Len(Refs(f)) + 1, hold |-> 0,
     got |-> [i \in 1..Len(got) |-> [e |-> got[i], ok |-> TRUE]],
     paths |-> Refs(f), added |-> Len(Refs(f)), res |-> "ok", rv |-> "nil",
     origin |-> 0, prior |-> p]

Settled(p) ==
    /\ watch = TRUE
    /\ cpc = "loop"
    /\ ret = NotReturned
    /\ fsClosed = FALSE
    /\ fsNil = FALSE
    /\ tasks = <<SettledTask("f1", <<1, 2, 3, 4>>, p), SettledTask("f2", <<3, 4>>, p)>>
    /\ futures = <<>>
    /\ out = <<1, Separator, 2, Separator>>
    /\ outClosed = FALSE
    /\ gerr = 0
    /\ sm = [f \in Files |-> Refs(f)]
    /\ graph = [st |-> "ok", keys |-> {"A", "B"}]
    /\ cb = IdleCb
    /\ notifs = 0
    /\ nerr = "none"
    /\ entries = SettledEntries
    /\ table = [ck \in Range([i \in 1..4 |-> SettledEntries[i].key]) |->
                   CHOOSE i \in 1..4 : SettledEntries[i].key = ck]
    /\ invs = [k \in Keys |-> 0]

\* Spec reaches the settled state (with the tasks not marked prior).
SettledInSpec == Settled(FALSE)

InitWatch == Settled(TRUE)

NextWatch ==
    \/ \E f \in Files : RecvFile(f)
    \/ RecvRequeue
    \/ RecvHead
    \/ \E t \in Positions : RecvErrTask(t)
    \/ RecvErrNotifier
    \/ \E t \in Positions : ResolveFail(t)
    \/ \E t \in Positions : ResolveStart(t)
    \/ \E t \in Positions : BuildReturn(t)
    \/ \E t \in Positions : PublishReturn(t)
    \/ \E t \in Positions : AddPath(t)
    \/ \E t \in Positions : AddFailReturn(t)
    \/ \E t \in Positions : GroupRecord(t)
    \/ \E e \in 1..Len(entries) : StartOp(e)
    \/ \E e \in 1..Len(entries) : FinishOp(e)
    \/ \E S \in SUBSET graph.keys \ {{}} : Notify(S)
    \/ \E f \in Files : CbVisit(f)
    \/ CbScan
    \/ CbReturn

\* The watch run continued from the settled state.
SpecWatch == InitWatch /\ [][NextWatch]_vars

\* ------------------------------------------------------------------ claims
Written(t) == \E i \in 1..Len(out) : i % 2 = 1 /\ out[i] = t
Dequeued(t) == t \in Positions /\ t \notin Range(futures)
BuildEntries == {e \in 1..Len(entries) : entries[e].key[1] = "build"}
GotEntries(t) == {tasks[t].got[i].e : i \in 1..Len(tasks[t].got)}

\* C1: the blocks written to the sink are in the order in which their file
\* identifiers were received (the positions of the blocks in the sink
\* increase), whichever task finished first.
C1_OutputInArrivalOrder ==
    \A i \in 1..Len(out) : \A j \in (i + 1)..Len(out) :
        (i % 2 = 1 /\ j % 2 = 1) => out[i] < out[j]

\* The later file's task has finished first and is blocked handing over its
\* bytes, while the coordinator listens to the future of the earlier file,
\* whose task is still resolving.
C1_Witness ==
    \E i, j \in Positions :
        /\ i < j
        /\ futures = <<i, j>>
        /\ tasks[i].res = "none"
        /\ tasks[j].pc = "send"
        /\ ~Written(j)

\* C2: in one-shot mode, once a file's resolution has failed no block is
\* written for a file submitted after it.
C2_NoBlockAfterFailure ==
    ~watch => \A i, j \in Positions :
                 (i < j /\ tasks[i].res = "err") => ~Written(j)

\* A task whose returned error has reached the errgroup.
Observed(t) == tasks[t].pc = "done" /\ tasks[t].rv = "err"

\* C3: in one-shot mode a run in which a resolution failed returns the
\* error of a failed task, never success, and that error is the first one
\* the errgroup observed: the group's error is set by the first task whose
\* error reaches it and never changes afterwards.
C3_FirstTaskErrorReturned ==
    /\ [](~watch /\ cpc = "done" /\ (\E t \in Positions : tasks[t].res = "err")
            => /\ ret = TaskErr(gerr)
               /\ gerr \in Positions
               /\ tasks[gerr].res = "err")
    /\ [][~watch => /\ gerr # 0 => gerr' = gerr
                    /\ (gerr = 0 /\ gerr' # 0)
                         => /\ \A t \in Positions : ~Observed(t)
                            /\ tasks[gerr'].res = "err"
                            /\ tasks[gerr'].pc = "record"
                            /\ tasks'[gerr'].pc = "done"]_vars

\* A one-shot run in which two tasks failed has returned the error of the
\* one that failed first, here the later submitted one.
C3_Witness ==
    /\ ~watch
    /\ cpc = "done"
    /\ Len(tasks) = 2
    /\ tasks[1].res = "err" /\ tasks[2].res = "err"
    /\ ret = TaskErr(2)

\* C4: in watch mode a failed resolution is a skip: the file has no block in
\* the sink, its task returns nil to the group, the run does not return a
\* task error, and every dequeued file whose resolution succeeded has its
\* block in the sink.
C4_WatchErrorIsSkip ==
    watch =>
        /\ \A t \in Positions :
              tasks[t].res = "err" => /\ ~Written(t)
                                      /\ tasks[t].rv = "nil"
                                      /\ gerr # t
        /\ ret.kind # "task"
        /\ \A t \in Positions : (Dequeued(t) /\ tasks[t].res = "ok") => Written(t)

\* In watch mode the first file failed and was dequeued without a block,
\* and the next file's block is written while the run goes on.
C4_Witness ==
    /\ watch
    /\ cpc = "loop"
    /\ Len(tasks) = 2
    /\ tasks[1].res = "err"
    /\ out = <<2, Separator>>

\* C5: per key and generation there is one entry and its operation is
\* invoked at most once, exactly once when it has resolved; every caller
\* holds or has received the outcome stored in that one entry, errors
\* included.
C5_OncePerGeneration ==
    /\ \A e \in 1..Len(entries) :
          /\ entries[e].calls <= 1
          /\ entries[e].st # "queued" => entries[e].calls = 1
    /\ \A e1 \in 1..Len(entries) : \A e2 \in (e1 + 1)..Len(entries) :
          entries[e1].gen # entries[e2].gen \/ entries[e1].key # entries[e2].key
    /\ \A t \in Positions :
          /\ \A i \in 1..Len(tasks[t].got) :
                LET g == tasks[t].got[i] IN
                /\ entries[g.e].st = "done"
                /\ entries[g.e].ok = g.ok
          /\ tasks[t].hold # 0 => tasks[t].hold \in 1..Len(entries)

\* Two callers have received the error stored in the same entry, whose
\* operation ran once.
C5_Witness ==
    \E e \in 1..Len(entries) :
        /\ entries[e].calls = 1
        /\ ~entries[e].ok
        /\ \E t1, t2 \in Positions :
              /\ t1 # t2
              /\ e \in GotEntries(t1)
              /\ e \in GotEntries(t2)

\* C6: the build table never holds an entry created before the key's latest
\* invalidation, so an Execute after Invalidate creates a new entry; the
\* entries of earlier generations stay as they were: invoked once, and what
\* a caller received from them is still what they store.
C6_InvalidateStartsNewGeneration ==
    /\ \A ck \in DOMAIN table :
          /\ entries[table[ck]].key = ck
          /\ entries[table[ck]].gen = Generation(ck)
    /\ \A e \in BuildEntries :
          entries[e].gen < Generation(entries[e].key) =>
              /\ entries[e].calls <= 1
              /\ \A t \in Positions : \A i \in 1..Len(tasks[t].got) :
                    tasks[t].got[i].e = e =>
                        (entries[e].st = "done" /\ tasks[t].got[i].ok = entries[e].ok)

\* A key built successfully in one generation was invalidated and built
\* again for a later caller, while the first caller keeps the first result.
C6_Witness ==
    \E e1, e2 \in BuildEntries :
        /\ entries[e1].key = entries[e2].key
        /\ entries[e1].gen < entries[e2].gen
        /\ entries[e1].ok
        /\ entries[e2].calls = 1
        /\ \E t1, t2 \in Positions :
              /\ t1 # t2
              /\ e1 \in GotEntries(t1)
              /\ e2 \in GotEntries(t2)

\* The keys a notification must invalidate and the files it must re-enqueue,
\* from the import paths the callback loaded for the files it has visited.
KeysToInvalidate == {k \in cb.S : \E f \in DOMAIN cb.seen : k \in Range(cb.seen[f])}
FilesToRequeue == {f \in DOMAIN cb.seen : Range(cb.seen[f]) \cap cb.S # {}}

\* C7: the watch callback invalidates only recorded keys that are in the
\* change set and re-enqueues only files whose recorded keys intersect it,
\* and when it returns it has invalidated all of those keys and re-enqueued
\* all of those files.
C7_CallbackExact ==
    /\ cb.inv \subseteq KeysToInvalidate
    /\ Range(cb.sent) \subseteq FilesToRequeue
    /\ \A k \in Keys : (invs[k] > 0 /\ notifs = 1) => k \in cb.inv
    /\ (cb.st = "idle" /\ notifs > 0) =>
          /\ cb.inv = KeysToInvalidate
          /\ Range(cb.sent) = FilesToRequeue

\* The callback has returned for the change set {A} and a file recorded
\* with <<A, B>>: A alone was invalidated and the file was re-enqueued.
C7_Witness ==
    /\ cb.st = "idle"
    /\ notifs > 0
    /\ cb.S = {"A"}
    /\ "f1" \in DOMAIN cb.seen
    /\ cb.seen["f1"] = <<"A", "B">>
    /\ cb.inv = {"A"}
    /\ Range(cb.sent) = {"f1"}
    /\ invs["B"] = 0

\* C8: the coordinator has left its loop normally, or the run has returned
\* what errs.Wait() gave, only with the file stream closed (and seen closed)
\* and no future left.
C8_SuccessOnlyWhenDrained ==
    (cpc = "wait" \/ (cpc = "done" /\ ret.kind \in {"nil", "task"}))
        => (fsClosed /\ fsNil /\ futures = <<>>)

\* A run has returned success after writing two blocks.
C8_Witness ==
    /\ cpc = "done"
    /\ ret = NoErr
    /\ Len(out) = 4

\* C9: when the run returns a fatal task error or a fatal graph error,
\* every launched task has returned.
C9_TasksSettledAtReturn ==
    (cpc = "done" /\ ret.kind \in {"task", "watch"})
        => \A t \in Positions : tasks[t].pc = "done"

\* C10: in watch mode an error received from errCh ends the run with an
\* error wrapping it, and nothing is written to the sink once the run has
\* returned.
C10_GraphErrorIsFatal ==
    /\ [](watch =>
            /\ nerr = "delivered"
                  => (cpc = "done" /\ ret.kind = "watch" /\ ret.src = NotifierSrc)
            /\ \A t \in Positions :
                  (tasks[t].pc = "errret" \/ tasks[t].rv = "err")
                      => (cpc = "done" /\ ret.kind = "watch" /\ ret.src = t))
    /\ [][cpc = "done" => (out' = out /\ cpc' = "done" /\ ret' = ret)]_vars

\* A task's failed Add was received from errCh after a block was written;
\* the run has returned it while another future was still queued.
C10_Witness ==
    /\ watch
    /\ cpc = "done"
    /\ ret.kind = "watch" /\ ret.src = 1
    /\ out = <<1, Separator>>
    /\ futures = <<2>>

\* C11: when graph.New fails the run returns that error at once: no file
\* identifier was consumed, no task launched, no cache entry created and
\* nothing written.
C11_GraphNewFailureStopsRun ==
    graph.st = "failed" =>
        /\ cpc = "done"
        /\ ret.kind = "graphnew"
        /\ tasks = <<>>
        /\ futures = <<>>
        /\ entries = <<>>
        /\ out = <<>>

\* A watch run has returned the graph construction error.
C11_Witness ==
    /\ watch
    /\ graph.st = "failed"
    /\ ret.kind = "graphnew"
    /\ outClosed

\* C12: the sink is a sequence of blocks, each the bytes of one task
\* followed by the separator; a task has at most one block; a dequeued task
\* has a block exactly when it handed over bytes, a queued one has none; and
\* the futures still queued are the latest arrivals, each once, in order.
C12_AtMostOneBlockPerFile ==
    /\ Len(out) % 2 = 0
    /\ \A i \in 1..Len(out) :
          IF i % 2 = 1 THEN out[i] \in Positions ELSE out[i] = Separator
    /\ \A i \in 1..Len(out) : \A j \in (i + 1)..Len(out) :
          (i % 2 = 1 /\ j % 2 = 1) => out[i] # out[j]
    /\ \A t \in Positions :
          /\ Dequeued(t) =>
                (Written(t) <=> tasks[t].pc \in {"add", "errsend", "errret"}
                                \/ (FutureClosed(tasks[t]) /\ tasks[t].res = "ok"))
          /\ ~Dequeued(t) => ~Written(t)
    /\ \A i \in 1..Len(futures) : futures[i] = Len(tasks) - Len(futures) + i

\* The first future was closed without a value and dequeued with no write,
\* the second delivered its bytes and has its one block.
C12_Witness ==
    /\ Len(tasks) = 2
    /\ futures = <<>>
    /\ tasks[1].res = "err"
    /\ tasks[2].res = "ok"
    /\ out = <<2, Separator>>

\* C13: at most ConcurrentBuilds physical builds are in progress, however
\* many keys are requested and however many callers wait on entries.
C13_BuildsLimited ==
    /\ Cardinality(Running) <= ConcurrentBuilds
    /\ \A e \in BuildEntries : entries[e].st = "running" => entries[e].calls = 1

\* Every limiter slot is taken while the build of another key waits for
\* one, with a caller waiting on each of the entries.
C13_Witness ==
    /\ Cardinality(Running) = ConcurrentBuilds
    /\ \E e1 \in Running : \E e2 \in BuildEntries :
          /\ entries[e2].st = "queued"
          /\ entries[e1].key # entries[e2].key
          /\ \E t1, t2 \in Positions :
                /\ tasks[t1].pc = "build" /\ tasks[t1].hold = e1
                /\ tasks[t2].pc = "build" /\ tasks[t2].hold = e2

\* The receive from fs, whichever file name the enumerator sends.
RecvAnyFile == \E f \in Files : RecvFile(f)

\* C14: in every iteration of the loop the select can take exactly the
\* valid sources. fs is nil only once its close was received, and then no
\* receive from fs can be taken; until then a close, a file name of the
\* enumerator or one of the callback is taken when offered. The head future
\* can be taken exactly when there is a future and its task has sent or
\* closed it. With no future and fs nil the loop breaks, and only then.
C14_AwaitsExactlyValidSources ==
    cpc = "loop" =>
        /\ fsNil => fsClosed
        /\ fsNil => (~ENABLED RecvClosed /\ ~ENABLED RecvRequeue /\ ~ENABLED RecvAnyFile)
        /\ (~fsNil /\ fsClosed) => ENABLED RecvClosed
        /\ (~fsNil /\ ~fsClosed /\ Cardinality(Launched) < MaxFiles) => ENABLED RecvAnyFile
        /\ (~fsNil /\ cb.st = "send" /\ Cardinality(Launched) < MaxFiles)
              => ENABLED RecvRequeue
        /\ futures = <<>> => ~ENABLED RecvHead
        /\ futures # <<>> =>
              (ENABLED RecvHead <=> tasks[futures[1]].pc \in {"send", "record", "done"})
        /\ ENABLED Break <=> (fsNil /\ futures = <<>>)

\* The coordinator drains: fs is nil, a future is queued and its task has
\* not finished, so only the head future is awaited.
C14_Witness ==
    /\ cpc = "loop"
    /\ fsNil
    /\ Len(futures) = 2
    /\ tasks[futures[1]].pc = "build"

\* How often key k was invalidated by the notification being served, and
\* the generation of k that was current when the notification arrived.
TimesInvalidated(k) == Cardinality({i \in 1..Len(cb.invseq) : cb.invseq[i] = k})
PreChangeGen(k) == invs[k] - TimesInvalidated(k)

\* The build entries a task holds or has received.
BuildEntriesOf(t) ==
    {e \in BuildEntries : e \in GotEntries(t) \/ (tasks[t].pc = "build" /\ e = tasks[t].hold)}

\* C15: when the callback puts a file name onto fs, every recorded import
\* path of the file that is in the change set has been invalidated, and a
\* task launched from that file name holds no entry of the pre-change
\* generation for a changed key.
C15_InvalidatedBeforeRequeue ==
    /\ cb.st = "send" => \A k \in Range(cb.val) \cap cb.S : k \in cb.inv
    /\ \A t \in Positions :
          (notifs > 0 /\ tasks[t].origin = notifs) =>
              \A e \in BuildEntriesOf(t) :
                  entries[e].key[2] \in cb.S
                      => entries[e].gen > PreChangeGen(entries[e].key[2])

\* The re-launched task of a file recorded with <<A, B>>, change set {A, B},
\* has taken the entry of B that was built before the change.
C15_StaleRead ==
    \E t \in Positions : \E e \in BuildEntriesOf(t) :
        /\ notifs > 0 /\ tasks[t].origin = notifs
        /\ cb.S = {"A", "B"}
        /\ entries[e].key = BuildKey("B")
        /\ entries[e].gen = PreChangeGen("B")
        /\ e \in GotEntries(t)

\* How often the callback of the notification being served has put file
\* name f onto fs: the sends the coordinator took and the one in progress.
TimesRequeued(f) ==
    Cardinality({i \in 1..Len(cb.sent) : cb.sent[i] = f})
        + (IF cb.st = "send" /\ cb.f = f THEN 1 ELSE 0)

\* C16: for one notification a file is put onto fs at most once, and once
\* the callback has returned every file whose recorded import paths
\* intersect the change set was put onto fs exactly once.
C16_RequeuedOnce ==
    /\ \A f \in Files : TimesRequeued(f) <= 1
    /\ (cb.st = "idle" /\ notifs > 0) => \A f \in FilesToRequeue : TimesRequeued(f) = 1

\* The keys of the change set that the callback loaded for two files or more.
SharedKeys ==
    {k \in cb.S : Cardinality({f \in DOMAIN cb.seen : k \in Range(cb.seen[f])}) >= 2}

\* The build entries of key k created after the notification's first
\* invalidation of it.
Rebuilds(k) ==
    {e \in BuildEntries : entries[e].key = BuildKey(k) /\ entries[e].gen > PreChangeGen(k)}

\* C19: a changed key recorded for two files or more is invalidated once by
\* the notification and built again once: the re-launched tasks share one
\* new entry.
C19_SharedKeyRebuiltOnce ==
    \A k \in SharedKeys :
        /\ TimesInvalidated(k) <= 1
        /\ Cardinality(Rebuilds(k)) <= 1

\* Both files sharing B were re-launched by one notification and each
\* received its own new build of B.
C19_TwoRebuilds ==
    \E t1, t2 \in Positions : \E e1, e2 \in Rebuilds("B") :
        /\ tasks[t1].origin = notifs /\ tasks[t2].origin = notifs /\ notifs > 0
        /\ t1 # t2 /\ e1 # e2
        /\ e1 \in GotEntries(t1)
        /\ e2 \in GotEntries(t2)

\* The keys of the builds task t obtained through its recording builder.
KeysBuilt(t) == {entries[e].key[2] : e \in BuildEntriesOf(t)}

\* Task t resolved its file and stored paths as the file's value.
StoredBy(t, f, paths) ==
    /\ tasks[t].file = f
    /\ tasks[t].res = "ok"
    /\ tasks[t].paths = paths

\* Every value of sm is the duplicate-free list of the keys one successful
\* task of that file built, and a task whose bytes are on their way to the
\* coordinator, or beyond, has its file's value stored.
StoredValuesExact ==
    /\ \A f \in Files :
          sm[f] # <<>> =>
              /\ \A i, j \in 1..Len(sm[f]) : sm[f][i] = sm[f][j] => i = j
              /\ \E t \in Positions :
                    StoredBy(t, f, sm[f]) /\ Range(sm[f]) = KeysBuilt(t)
    /\ \A t \in Positions : tasks[t].res = "ok" => sm[tasks[t].file] # <<>>

\* A step never removes a value of sm, and changes one only to the paths of
\* a task of that file that resolved successfully in this step.
StoredValuesKept ==
    \A f \in Files :
        /\ sm[f] # <<>> => sm'[f] # <<>>
        /\ sm'[f] # sm[f] =>
              \E t \in Positions :
                  /\ tasks[t].res # "ok"
                  /\ tasks'[t].file = f /\ tasks'[t].res = "ok"
                  /\ sm'[f] = tasks'[t].paths

\* C17: every value stored in the file-to-keys map is exactly the
\* duplicate-free key set one successful task of that file built, it is
\* stored before the task's bytes are delivered, and an entry is never
\* removed, only replaced by a later successful resolution of the file.
C17_StoredKeysExact == []StoredValuesExact /\ [][StoredValuesKept]_vars

\* A second successful task of f1 has replaced the value of f1, and its
\* bytes were written.
C17_Witness ==
    \E t1, t2 \in Positions :
        /\ t1 < t2
        /\ StoredBy(t1, "f1", <<"A", "B">>) /\ StoredBy(t2, "f1", sm["f1"])
        /\ Written(t2)

\* The run has returned with its deferred calls made: the sink is closed
\* and, in watch mode once graph.New succeeded, the graph is shut down.
ReleasedAtReturn ==
    cpc = "done" =>
        /\ outClosed
        /\ (watch /\ ret.kind # "graphnew") => graph.st = "shutdown"

\* C20: on every return path (success, fatal task error, graph construction
\* failure, fatal graph error) the sink has been closed and, in watch mode
\* once the graph was constructed, the graph has been shut down; nothing is
\* written to the sink after it is closed.
C20_ReleasedOnEveryReturn ==
    []ReleasedAtReturn /\ [][outClosed => out' = out]_vars

\* A watch run that wrote a block and then returned on a fatal graph error,
\* with the sink closed and the graph shut down.
C20_Witness ==
    /\ cpc = "done"
    /\ ret.kind = "watch"
    /\ Len(out) > 0
    /\ outClosed
    /\ graph.st = "shutdown"

\* C18: a one-shot run whose file stream closes after finitely many names
\* and whose builds and publishes terminate eventually returns, and by
\* then the block of every successfully resolved file has been written.
C18_OneShotReturns ==
    <>(cpc = "done" /\ \A t \in Positions : tasks[t].res = "ok" => Written(t))

\* A one-shot run returned without error after the task of f2 waited for
\* the build of B that the task of f1 started, both blocks written.
C18_Witness ==
    /\ ~watch
    /\ cpc = "done"
    /\ ret = NoErr
    /\ Len(tasks) = MaxFiles
    /\ tasks[1].file = "f1" /\ tasks[2].file = "f2"
    /\ BuildEntriesOf(2) \subseteq BuildEntriesOf(1)
    /\ \A t \in Positions : tasks[t].res = "ok" /\ Written(t)

====
